---- MODULE Spec2Model ----
(***************************************************************************)
(* Model of src/app.py: the listing-text ("rateran") generator.            *)
(*                                                                         *)
(* A Python str is a sequence of characters.  A character is a TLA+        *)
(* string; the non-ASCII characters of the source are written in ASCII:    *)
(*   "ji" = U+5B57 (mark: subtitled)   "de"   = U+30C7 (mark: dubbed)      *)
(*   "shin" = U+65B0 (mark: new)       "shu"  = U+7D42 (mark: final)       *)
(*   "FW(" "FW)" = full-width parentheses, "(" ")" = half-width ones       *)
(*   "J," = ideographic comma U+3001,  "FW," = full-width comma U+FF0C     *)
(*   "FW/" = full-width slash U+FF0F,  "mid" = middle dot U+30FB           *)
(*   "do" "ta" "ya" "tan" = letters that are neither Latin nor delimiters  *)
(***************************************************************************)
EXTENDS Integers, Sequences, FiniteSets, TLC

VARIABLES
    lengths_input,  \* the text of the length-pattern input (line 115)
    marks,          \* the four checkboxes (lines 124-129)
    writer_input,   \* the writer's name (line 132)
    uploaded,       \* the uploaded file: none, unreadable, or a grid (line 135)
    pc,             \* position of the script run
    lengths,        \* the parsed lengths (line 117)
    base_title,     \* line 158
    cast,           \* line 159
    out_rows,       \* line 174
    reported,       \* what st.error / st.warning showed, "" when nothing
    call,           \* a direct call of one of the utility functions: its arguments
    ret             \* and what it returned

vars == <<lengths_input, marks, writer_input, uploaded, pc, lengths,
          base_title, cast, out_rows, reported, call, ret>>

None == "None"

-----------------------------------------------------------------------------
(* Characters *)

UPPER == {"A", "N"}
LOWER == {"a", "n"}
\* LATIN = re.compile(r"[A-Za-z]")
LATIN == UPPER \cup LOWER

SPACE == " "
\* what \s matches and what str.strip() removes
WHITESPACE == {SPACE}

FW_OPEN == "FW("
FW_CLOSE == "FW)"
\* the classes [ ( or full-width ( ] and [ ) or full-width ) ] of lines 46, 48
OPEN == {FW_OPEN, "("}
CLOSE == {FW_CLOSE, ")"}

IDEO_COMMA == "J,"
\* the delimiter class of lines 55 and 62: ideographic comma, full-width comma,
\* comma, slash, full-width slash, middle dot, whitespace
DELIM == {IDEO_COMMA, "FW,", ",", "/", "FW/", "mid"} \cup WHITESPACE

DIGITS == <<"0", "1", "2", "3", "4", "5", "6", "7", "8", "9">>
DIGIT == {DIGITS[i] : i \in 1..Len(DIGITS)}

-----------------------------------------------------------------------------
(* Python str operations *)

\* s[:n] for 0 <= n
Take(s, n) == SubSeq(s, 1, IF n < Len(s) THEN n ELSE Len(s))

\* s[n:] for 0 <= n
Drop(s, n) == SubSeq(s, n + 1, Len(s))

\* number of leading characters of s that are in class
RECURSIVE RunLen(_, _)
RunLen(s, class) ==
    IF s # <<>> /\ Head(s) \in class THEN 1 + RunLen(Tail(s), class) ELSE 0

\* number of trailing characters of s that are in class
RECURSIVE RunLenBack(_, _)
RunLenBack(s, class) ==
    IF s # <<>> /\ s[Len(s)] \in class
    THEN 1 + RunLenBack(SubSeq(s, 1, Len(s) - 1), class)
    ELSE 0

\* 1-based index of the first character of s in class, 0 when there is none
RECURSIVE IndexOf(_, _)
IndexOf(s, class) ==
    IF s = <<>> THEN 0
    ELSE IF Head(s) \in class THEN 1
    ELSE LET r == IndexOf(Tail(s), class) IN IF r = 0 THEN 0 ELSE r + 1

\* str.strip()
strip(s) ==
    LET a == RunLen(s, WHITESPACE)
        t == Drop(s, a)
    IN  Take(t, Len(t) - RunLenBack(t, WHITESPACE))

\* str.lower()
lower(s) ==
    [i \in 1..Len(s) |->
        IF s[i] = "A" THEN "a" ELSE IF s[i] = "N" THEN "n" ELSE s[i]]

\* sep.join(parts)
RECURSIVE join(_, _)
join(sep, parts) ==
    IF parts = <<>> THEN <<>>
    ELSE IF Len(parts) = 1 THEN parts[1]
    ELSE parts[1] \o sep \o join(sep, Tail(parts))

\* [p for p in parts if p]
RECURSIVE NonEmpty(_)
NonEmpty(parts) ==
    IF parts = <<>> THEN <<>>
    ELSE IF Head(parts) = <<>> THEN NonEmpty(Tail(parts))
    ELSE <<Head(parts)>> \o NonEmpty(Tail(parts))

\* re.split(r"[class]+", s): the pieces between the maximal runs of class
\* characters; a run at either end of s leaves an empty piece there.
RECURSIVE re_split(_, _)
re_split(class, s) ==
    LET i == IndexOf(s, class) IN
    IF i = 0 THEN <<s>>
    ELSE LET rest == Drop(s, i - 1)
         IN  <<Take(s, i - 1)>> \o re_split(class, Drop(rest, RunLen(rest, class)))

\* s.split(sep) for a one-character sep: every sep separates, empty pieces kept
RECURSIVE split(_, _)
split(s, sep) ==
    LET i == IndexOf(s, {sep}) IN
    IF i = 0 THEN <<s>>
    ELSE <<Take(s, i - 1)>> \o split(Drop(s, i), sep)

\* s is a prefix of t
IsPrefix(s, t) == Len(s) <= Len(t) /\ SubSeq(t, 1, Len(s)) = s

-----------------------------------------------------------------------------
(* The utilities of src/app.py *)

\* FIXPOS (lines 10-17): the cells the script reads, 0-based (row, column)
FIXPOS == [TITLE |-> <<6, 1>>, CAST |-> <<10, 1>>]

\* a cell of the sheet that pandas read: a text, or NaN for an empty cell
NaN == [t |-> "nan", v |-> <<>>]
Text(v) == [t |-> "str", v |-> v]

\* str(value)
str(value) == IF value.t = "nan" THEN <<"n", "a", "n">> ELSE value.v

\* get_cell(df, pos): df is a function from the positions the sheet has to
\* cells; df.iat raises for any other position.
get_cell(df, pos) ==
    IF pos = None THEN <<>>
    ELSE IF pos \notin DOMAIN df THEN <<>>
    ELSE LET val == strip(str(df[pos]))
         IN  IF lower(val) = <<"n", "a", "n">> THEN <<>> ELSE val

\* LATIN.search(s)
LATIN_search(s) == \E i \in 1..Len(s) : s[i] \in LATIN

\* re.sub(r"[FW( (][^FW) )]*[FW) )]\s*$", "", s), line 46.
\* A match starts at an opening parenthesis, runs over non-closing characters
\* to the first closing parenthesis after it, and then only whitespace may
\* follow up to the end of s.  The leftmost start that matches is removed with
\* all that follows it.
RECURSIVE sub_trailing_paren(_)
sub_trailing_paren(s) ==
    LET i == IndexOf(s, OPEN) IN
    IF i = 0 THEN s
    ELSE LET after == Drop(s, i)
             j     == IndexOf(after, CLOSE)
         IN  IF j # 0 /\ RunLen(Drop(after, j), WHITESPACE) = Len(after) - j
             THEN Take(s, i - 1)
             ELSE Take(s, i) \o sub_trailing_paren(after)

\* re.sub(r"\s*[FW( (][^FW) )]*[FW) )]\s*", " ", s), line 48.
\* The leftmost match starts at the whitespace run in front of the first opening
\* parenthesis that has a closing one after it, runs to the first closing
\* parenthesis and over the whitespace behind it; it becomes one space and the
\* scan goes on behind the match.
RECURSIVE sub_paren_groups(_)
sub_paren_groups(s) ==
    LET i == IndexOf(s, OPEN) IN
    IF i = 0 THEN s
    ELSE LET after == Drop(s, i)
             j     == IndexOf(after, CLOSE)
         IN  IF j = 0 THEN s
             ELSE LET before == Take(s, i - 1)
                      behind == Drop(after, j)
                  IN  Take(before, Len(before) - RunLenBack(before, WHITESPACE))
                        \o <<SPACE>>
                        \o sub_paren_groups(Drop(behind, RunLen(behind, WHITESPACE)))

\* variant: line 48 without its final .strip()
prefer_latin_title_no_final_strip(title_raw) ==
    LET s == strip(title_raw) IN
    IF s = <<>> THEN s
    ELSE IF LATIN_search(s)
         THEN sub_paren_groups(strip(sub_trailing_paren(s)))
         ELSE s

\* variant: the parentheses are removed whether or not LATIN.search(s) finds a letter
prefer_latin_title_no_latin_check(title_raw) ==
    LET s == strip(title_raw) IN
    IF s = <<>> THEN s
    ELSE strip(sub_paren_groups(strip(sub_trailing_paren(s))))

\* prefer_latin_title, lines 34-49
prefer_latin_title(title_raw) ==
    LET s == strip(title_raw) IN
    IF s = <<>> THEN s
    ELSE IF LATIN_search(s)
         THEN strip(sub_paren_groups(strip(sub_trailing_paren(s))))
         ELSE s

\* variant: the first piece of the split is dropped (parts[1:])
normalize_cast_skip_first(cast_text) ==
    join(<<IDEO_COMMA>>, NonEmpty(Tail(re_split(DELIM, strip(cast_text)))))

\* normalize_cast, lines 51-57
normalize_cast(cast_text) ==
    join(<<IDEO_COMMA>>, NonEmpty(re_split(DELIM, strip(cast_text))))

\* variant: the names are joined with a half-width comma
cast_first_n_comma(c, n) ==
    IF c = <<>> THEN <<>>
    ELSE join(<<",">>, Take(NonEmpty(re_split(DELIM, c)), n))

\* cast_first_n, lines 59-63
cast_first_n(c, n) ==
    IF c = <<>> THEN <<>>
    ELSE join(<<IDEO_COMMA>>, Take(NonEmpty(re_split(DELIM, c)), n))

\* variant: the slice is s[:n + 1]
trim_to_len_off_by_one(s, n) ==
    IF n <= 0 THEN <<>> ELSE IF Len(s) <= n THEN s ELSE Take(s, n + 1)

\* trim_to_len, lines 65-67
trim_to_len(s, n) ==
    IF n <= 0 THEN <<>> ELSE IF Len(s) <= n THEN s ELSE Take(s, n)

MarkNames == {"ji", "de", "shin", "shu"}

\* variant: the leading marks are appended in the order "de", "ji"
compose_text_head_swapped(title, c, m) ==
    LET head == (IF m["de"] THEN <<"de">> ELSE <<>>) \o (IF m["ji"] THEN <<"ji">> ELSE <<>>)
        core == (IF m["shin"] THEN <<"shin">> ELSE <<>>) \o title
                  \o (IF m["shu"] THEN <<"shu">> ELSE <<>>)
    IN  head \o core \o c

\* compose_text, lines 69-88
compose_text(title, c, m) ==
    LET head0        == <<>>
        head1        == IF m["ji"] THEN head0 \o <<"ji">> ELSE head0
        head         == IF m["de"] THEN head1 \o <<"de">> ELSE head1
        title_prefix == IF m["shin"] THEN <<"shin">> ELSE <<>>
        title_suffix == IF m["shu"] THEN <<"shu">> ELSE <<>>
        core0        == title_prefix \o title \o title_suffix
        core         == IF c # <<>> THEN core0 \o c ELSE core0
    IN  head \o core

\* s in out, for a list out
In(s, out) == \E i \in 1..Len(out) : out[i] = s

\* variant: the test of line 105 is only `t not in out`
RECURSIVE fit_all_keep_empty(_, _, _)
fit_all_keep_empty(ideas_raw, length, out) ==
    IF ideas_raw = <<>> THEN out
    ELSE LET t == trim_to_len(Head(ideas_raw), length)
         IN  fit_all_keep_empty(Tail(ideas_raw), length,
                                IF ~In(t, out) THEN Append(out, t) ELSE out)

\* the loop of lines 102-106 over the raw candidates
RECURSIVE fit_all(_, _, _)
fit_all(ideas_raw, length, out) ==
    IF ideas_raw = <<>> THEN out
    ELSE LET t == trim_to_len(Head(ideas_raw), length)
         IN  fit_all(Tail(ideas_raw), length,
                     IF t # <<>> /\ ~In(t, out) THEN Append(out, t) ELSE out)

\* generate_ideas, lines 90-107
generate_ideas(title, c, m, length) ==
    fit_all(<<compose_text(title, c, m),
              compose_text(title, cast_first_n(c, 2), m),
              compose_text(title, <<>>, m)>>, length, <<>>)

-----------------------------------------------------------------------------
(* The script run (lines 112-192) *)

\* int(x): an optional sign and decimal digits (the argument is stripped already)
is_int(x) ==
    LET body == IF x # <<>> /\ x[1] \in {"+", "-"} THEN Tail(x) ELSE x
    IN  body # <<>> /\ \A i \in 1..Len(body) : body[i] \in DIGIT

RECURSIVE digits_value(_)
digits_value(body) ==
    IF body = <<>> THEN 0
    ELSE 10 * digits_value(SubSeq(body, 1, Len(body) - 1))
           + (CHOOSE d \in 0..9 : DIGITS[d + 1] = body[Len(body)])

int(x) ==
    IF x[1] = "-" THEN 0 - digits_value(Tail(x))
    ELSE IF x[1] = "+" THEN digits_value(Tail(x))
    ELSE digits_value(x)

\* [x for x in tokens if x.strip()]
RECURSIVE NonBlank(_)
NonBlank(tokens) ==
    IF tokens = <<>> THEN <<>>
    ELSE IF strip(Head(tokens)) = <<>> THEN NonBlank(Tail(tokens))
    ELSE <<Head(tokens)>> \o NonBlank(Tail(tokens))

\* variant: a token int() rejects is skipped instead of raising
lengths_parse_skip_bad(text) ==
    LET kept == NonBlank(split(text, ","))
        good == SelectSeq(kept, LAMBDA x : is_int(strip(x)))
    IN  [error |-> FALSE, lengths |-> [i \in 1..Len(good) |-> int(strip(good[i]))]]

\* lines 116-120: the list comprehension raises ValueError as a whole when
\* int() rejects one token
lengths_parse(text) ==
    LET kept == NonBlank(split(text, ",")) IN
    IF \E i \in 1..Len(kept) : ~is_int(strip(kept[i]))
    THEN [error |-> TRUE, lengths |-> <<>>]
    ELSE [error |-> FALSE, lengths |-> [i \in 1..Len(kept) |-> int(strip(kept[i]))]]

\* row 40, column 1 of the sheet: the script has no FIXPOS entry for it
SHORT_POS == <<40, 1>>

\* variant: a non-empty short-title cell replaces the title
title_used_short(df) ==
    LET short == get_cell(df, SHORT_POS) IN
    IF short # <<>> THEN short ELSE prefer_latin_title(get_cell(df, FIXPOS.TITLE))

\* lines 150 and 158: the title every length is composed from
title_used(df) == prefer_latin_title(get_cell(df, FIXPOS.TITLE))

\* lines 178-182: the rows of one length
rows_of(L, ideas, writer) ==
    [idx \in 1..Len(ideas) |->
        [length |-> L, idea_no |-> idx, text |-> ideas[idx], writer |-> writer]]

\* lines 174-182: the loop over the lengths
RECURSIVE rows_loop(_, _, _, _, _)
rows_loop(ls, title, c, m, writer) ==
    IF ls = <<>> THEN <<>>
    ELSE rows_of(Head(ls), generate_ideas(title, c, m, Head(ls)), writer)
           \o rows_loop(Tail(ls), title, c, m, writer)

-----------------------------------------------------------------------------
(* Inputs *)

MaxTokens == 2
MaxTitleLen == 5
MaxCastLen == 5
MaxIdeaCastLen == 5
MaxLength == 7

\* the strings of at most n characters of alpha
Strs(alpha, n) == UNION {[1..k -> alpha] : k \in 0..n}

MarkSets == [MarkNames -> BOOLEAN]

\* tokens of the length-pattern input: 10, 11, " 3", 0, a blank one, a malformed one
Tokens == {<<"1", "0">>, <<"1", "1">>, <<" ", "3">>, <<"0">>, <<" ">>, <<"x">>}

LengthInputs ==
    {join(<<",">>, toks) : toks \in UNION {[1..k -> Tokens] : k \in 1..MaxTokens}}

TitleCells == {NaN, Text(<<"A", "N", "FW(", "do", "FW)">>), Text(<<"do", " ">>)}
CastCells == {NaN, Text(<<"ta", ",", "ya", "FW/", "ta">>)}
ShortCells == {NaN, Text(<<"tan">>)}

\* the sheets: 41 rows or more, or only the 7 rows down to the title
Sheets ==
    {(FIXPOS.TITLE :> t) @@ (FIXPOS.CAST :> c) @@ (SHORT_POS :> sh) :
        t \in TitleCells, c \in CastCells, sh \in ShortCells}
    \cup {(FIXPOS.TITLE :> t) : t \in TitleCells}

Uploads ==
    {[kind |-> "none", df |-> <<>>], [kind |-> "unreadable", df |-> <<>>]}
    \cup {[kind |-> "sheet", df |-> d] : d \in Sheets}

-----------------------------------------------------------------------------
(* One run of the script: Spec *)

NoCall == [fn |-> "none", s |-> <<>>, cast |-> <<>>,
           marks |-> [k \in MarkNames |-> FALSE], length |-> 0]
NoRet == [done |-> FALSE, v |-> <<>>, vv |-> <<>>]

Init ==
    /\ lengths_input \in LengthInputs
    /\ marks \in MarkSets
    /\ writer_input = <<"w">>
    /\ uploaded \in Uploads
    /\ pc = "start"
    /\ lengths = <<>>
    /\ base_title = <<>>
    /\ cast = <<>>
    /\ out_rows = <<>>
    /\ reported = ""
    /\ call = NoCall
    /\ ret = NoRet

inputs == <<lengths_input, marks, writer_input, uploaded, call, ret>>

\* lines 116-120, a malformed token: st.error, st.stop
ParseLengthsError ==
    /\ pc = "start"
    /\ lengths_parse(lengths_input).error
    /\ reported' = "lengths_error"
    /\ pc' = "stopped"
    /\ UNCHANGED <<inputs, lengths, base_title, cast, out_rows>>

\* lines 116-117, every token an integer
ParseLengthsOk ==
    /\ pc = "start"
    /\ ~lengths_parse(lengths_input).error
    /\ lengths' = lengths_parse(lengths_input).lengths
    /\ pc' = "ready"
    /\ UNCHANGED <<inputs, base_title, cast, out_rows, reported>>

\* line 138: the button was not pressed in this run
NoClick ==
    /\ pc = "ready"
    /\ pc' = "end"
    /\ UNCHANGED <<inputs, lengths, base_title, cast, out_rows, reported>>

\* lines 139-141
ClickNoUpload ==
    /\ pc = "ready"
    /\ uploaded.kind = "none"
    /\ reported' = "upload_warning"
    /\ pc' = "stopped"
    /\ UNCHANGED <<inputs, lengths, base_title, cast, out_rows>>

\* lines 143-147
ClickReadFails ==
    /\ pc = "ready"
    /\ uploaded.kind = "unreadable"
    /\ reported' = "read_error"
    /\ pc' = "stopped"
    /\ UNCHANGED <<inputs, lengths, base_title, cast, out_rows>>

\* lines 149-182
ClickRun ==
    /\ pc = "ready"
    /\ uploaded.kind = "sheet"
    /\ base_title' = title_used(uploaded.df)
    /\ cast' = normalize_cast(get_cell(uploaded.df, FIXPOS.CAST))
    /\ out_rows' = rows_loop(lengths, base_title', cast', marks, writer_input)
    /\ pc' = "done"
    /\ UNCHANGED <<inputs, lengths, reported>>

Next ==
    \/ ParseLengthsError
    \/ ParseLengthsOk
    \/ NoClick
    \/ ClickNoUpload
    \/ ClickReadFails
    \/ ClickRun

Spec == Init /\ [][Next]_vars

-----------------------------------------------------------------------------
(* Direct calls of the utilities: SpecTitle, SpecCast, SpecIdeas *)

script_idle ==
    /\ lengths_input = <<>>
    /\ marks = [k \in MarkNames |-> FALSE]
    /\ writer_input = <<>>
    /\ uploaded = [kind |-> "none", df |-> <<>>]
    /\ pc = "call"
    /\ lengths = <<>>
    /\ base_title = <<>>
    /\ cast = <<>>
    /\ out_rows = <<>>
    /\ reported = ""

script == <<lengths_input, marks, writer_input, uploaded, pc, lengths,
            base_title, cast, out_rows, reported>>

TitleChars == {"A", "do", SPACE, "(", ")", FW_OPEN, FW_CLOSE}
CastChars == {"ta"} \cup DELIM
IdeaTitles == {<<>>, <<"A">>, <<"do", "A">>}
IdeaCastChars == {"ta", IDEO_COMMA, SPACE}

InitTitle ==
    /\ script_idle
    /\ \E x \in Strs(TitleChars, MaxTitleLen) :
          call = [NoCall EXCEPT !.fn = "prefer_latin_title", !.s = x]
    /\ ret = NoRet

\* prefer_latin_title(s), and prefer_latin_title of what it returned
CallPreferLatinTitle ==
    /\ call.fn = "prefer_latin_title"
    /\ ~ret.done
    /\ ret' = [done |-> TRUE, v |-> prefer_latin_title(call.s),
               vv |-> prefer_latin_title(prefer_latin_title(call.s))]
    /\ UNCHANGED <<script, call>>

NextTitle == CallPreferLatinTitle

SpecTitle == InitTitle /\ [][NextTitle]_vars

InitCast ==
    /\ script_idle
    /\ \E x \in Strs(CastChars, MaxCastLen) :
          call = [NoCall EXCEPT !.fn = "normalize_cast", !.cast = x]
    /\ ret = NoRet

\* normalize_cast(x), and normalize_cast of what it returned
CallNormalizeCast ==
    /\ call.fn = "normalize_cast"
    /\ ~ret.done
    /\ ret' = [done |-> TRUE, v |-> normalize_cast(call.cast),
               vv |-> normalize_cast(normalize_cast(call.cast))]
    /\ UNCHANGED <<script, call>>

NextCast == CallNormalizeCast

SpecCast == InitCast /\ [][NextCast]_vars

InitIdeas ==
    /\ script_idle
    /\ \E t \in IdeaTitles, c \in Strs(IdeaCastChars, MaxIdeaCastLen), m \in MarkSets :
          \/ \E L \in -1..MaxLength :
                call = [fn |-> "generate_ideas", s |-> t, cast |-> c, marks |-> m,
                        length |-> L]
          \/ call = [fn |-> "compose_text", s |-> t, cast |-> c, marks |-> m,
                     length |-> 0]
    /\ ret = NoRet

CallGenerateIdeas ==
    /\ call.fn = "generate_ideas"
    /\ ~ret.done
    /\ ret' = [done |-> TRUE,
               v |-> generate_ideas(call.s, call.cast, call.marks, call.length),
               vv |-> <<>>]
    /\ UNCHANGED <<script, call>>

CallComposeText ==
    /\ call.fn = "compose_text"
    /\ ~ret.done
    /\ ret' = [done |-> TRUE, v |-> compose_text(call.s, call.cast, call.marks),
               vv |-> <<>>]
    /\ UNCHANGED <<script, call>>

NextIdeas == CallGenerateIdeas \/ CallComposeText

SpecIdeas == InitIdeas /\ [][NextIdeas]_vars

-----------------------------------------------------------------------------
(* Properties of generate_ideas and compose_text, under SpecIdeas *)

IdeasReturned == call.fn = "generate_ideas" /\ ret.done

\* C1: for every title, cast, mark set and length L (L <= 0 included),
\* generate_ideas returns at most 3 texts, no two of them equal, each of at
\* most L characters.
C1_AtMostThreeDistinctFitting ==
    IdeasReturned =>
        /\ Len(ret.v) <= 3
        /\ \A i, j \in 1..Len(ret.v) : i # j => ret.v[i] # ret.v[j]
        /\ \A i \in 1..Len(ret.v) : Len(ret.v[i]) <= call.length

\* three ideas came back and the first one was cut to the length
C1_Witness ==
    /\ IdeasReturned
    /\ Len(ret.v) = 3
    /\ Len(ret.v[1]) = call.length
    /\ Len(call.s) + Len(call.cast) > call.length

\* C2 as stated: with an empty cast generate_ideas returns exactly 1 entry, for
\* every title, mark set and length.
C2_Original ==
    (IdeasReturned /\ call.cast = <<>>) => Len(ret.v) = 1

\* C2 as amended: with an empty cast generate_ideas returns exactly 1 entry when
\* the length is at least 1 and the title is non-empty or a mark is set, and
\* no entry otherwise.
C2_Amended ==
    (IdeasReturned /\ call.cast = <<>>) =>
        Len(ret.v) = IF call.length >= 1
                        /\ (call.s # <<>> \/ \E k \in MarkNames : call.marks[k])
                     THEN 1 ELSE 0

\* an empty cast, and the three candidates collapsed into one idea
C2_Witness ==
    /\ IdeasReturned
    /\ call.cast = <<>>
    /\ call.s # <<>>
    /\ Len(ret.v) = 1

\* C9: compose_text returns the concatenation of "ji" if set, "de" if set,
\* "shin" if set, the title, "shu" if set, and the cast, in this order, with no
\* separator; an unset mark and an empty cast contribute nothing.
C9_ComposeOrder ==
    (call.fn = "compose_text" /\ ret.done) =>
        ret.v = (IF call.marks["ji"] THEN <<"ji">> ELSE <<>>)
                  \o (IF call.marks["de"] THEN <<"de">> ELSE <<>>)
                  \o (IF call.marks["shin"] THEN <<"shin">> ELSE <<>>)
                  \o call.s
                  \o (IF call.marks["shu"] THEN <<"shu">> ELSE <<>>)
                  \o call.cast

\* all four marks set, a title and a cast
C9_Witness ==
    /\ call.fn = "compose_text"
    /\ ret.done
    /\ \A k \in MarkNames : call.marks[k]
    /\ call.s # <<>>
    /\ call.cast # <<>>

\* C10: when the cast is an output of normalize_cast (the casts normalize_cast
\* returns are the ones it leaves unchanged), every idea after the first is a
\* proper prefix of the idea before it.
C10_PrefixChain ==
    (IdeasReturned /\ normalize_cast(call.cast) = call.cast) =>
        \A i \in 2..Len(ret.v) :
            /\ IsPrefix(ret.v[i], ret.v[i - 1])
            /\ Len(ret.v[i]) < Len(ret.v[i - 1])

\* a normalized cast of three names, and three ideas
C10_Witness ==
    /\ IdeasReturned
    /\ normalize_cast(call.cast) = call.cast
    /\ Len(NonEmpty(re_split(DELIM, call.cast))) = 3
    /\ Len(ret.v) = 3

-----------------------------------------------------------------------------
(* Properties of prefer_latin_title, under SpecTitle *)

TitleReturned == call.fn = "prefer_latin_title" /\ ret.done

\* C6 as stated: for a non-empty title with no Latin letter prefer_latin_title
\* returns exactly its input, leading and trailing whitespace included.
C6_Original ==
    (TitleReturned /\ call.s # <<>> /\ ~LATIN_search(call.s)) => ret.v = call.s

\* C6 as amended: for a non-empty title with no Latin letter prefer_latin_title
\* returns its input without the leading and the trailing whitespace, and
\* nothing else removed: the result neither starts nor ends with whitespace,
\* and the input is the result with only whitespace before and behind it.
C6_Amended ==
    (TitleReturned /\ call.s # <<>> /\ ~LATIN_search(call.s)) =>
        /\ ret.v # <<>> => ret.v[1] \notin WHITESPACE /\ ret.v[Len(ret.v)] \notin WHITESPACE
        /\ \E a \in 0..Len(call.s) :
              /\ a + Len(ret.v) <= Len(call.s)
              /\ SubSeq(call.s, a + 1, a + Len(ret.v)) = ret.v
              /\ \A i \in 1..Len(call.s) :
                    (i <= a \/ i > a + Len(ret.v)) => call.s[i] \in WHITESPACE

\* a title with no Latin letter, a parenthesis and whitespace at an end
C6_Witness ==
    /\ TitleReturned
    /\ ~LATIN_search(call.s)
    /\ \E i \in 1..Len(call.s) : call.s[i] \in OPEN
    /\ \E i \in 1..Len(call.s) : call.s[i] \in CLOSE
    /\ call.s[Len(call.s)] \in WHITESPACE
    /\ ret.v # call.s

\* C7: prefer_latin_title(prefer_latin_title(s)) = prefer_latin_title(s)
C7_PreferLatinIdempotent ==
    TitleReturned => ret.vv = ret.v

\* a title with a Latin letter from which a parenthetical group was removed
C7_Witness ==
    /\ TitleReturned
    /\ LATIN_search(call.s)
    /\ ret.v # <<>>
    /\ Len(ret.v) + 2 <= Len(strip(call.s))

-----------------------------------------------------------------------------
(* Properties of normalize_cast, under SpecCast *)

\* C8: normalize_cast(normalize_cast(x)) = normalize_cast(x)
C8_NormalizeIdempotent ==
    (call.fn = "normalize_cast" /\ ret.done) => ret.vv = ret.v

\* two names came out of a text that was not normalized
C8_Witness ==
    /\ call.fn = "normalize_cast"
    /\ ret.done
    /\ ret.v # call.cast
    /\ Len(NonEmpty(re_split(DELIM, ret.v))) = 2

-----------------------------------------------------------------------------
(* Properties of the script run, under Spec *)

\* a non-blank token of the length list that int() rejects
HasMalformedToken(text) ==
    LET toks == split(text, ",") IN
    \E i \in 1..Len(toks) : strip(toks[i]) # <<>> /\ ~is_int(strip(toks[i]))

\* C5: with a malformed token in the length list the run reports the error and
\* stops; nothing is extracted and no row is produced.
C5_MalformedHalts ==
    HasMalformedToken(lengths_input) =>
        /\ pc \in {"start", "stopped"}
        /\ pc = "stopped" => reported = "lengths_error"
        /\ out_rows = <<>>
        /\ base_title = <<>>
        /\ cast = <<>>

\* the run stopped on a malformed token that follows a well-formed one, with a
\* sheet uploaded
C5_Witness ==
    /\ pc = "stopped"
    /\ reported = "lengths_error"
    /\ uploaded.kind = "sheet"
    /\ LET toks == split(lengths_input, ",")
       IN  Len(toks) >= 2 /\ is_int(strip(toks[1])) /\ ~is_int(strip(toks[2]))
                          /\ strip(toks[2]) # <<>>

\* C4: after the loop the result table has no two rows with the same length and
\* the same text.
C4_NoDuplicateRows ==
    pc = "done" =>
        \A i, j \in 1..Len(out_rows) :
            i # j => ~(/\ out_rows[i].length = out_rows[j].length
                       /\ out_rows[i].text = out_rows[j].text)

\* selectTitle of the specification, 4.2(b)
selectTitle(length, mainTitle, shortTitle) ==
    IF length <= 10 /\ shortTitle # <<>> THEN shortTitle ELSE mainTitle

\* the texts composed from a title for a length
Composed(title, c, m, L) ==
    {trim_to_len(compose_text(title, x, m), L) : x \in {c, cast_first_n(c, 2), <<>>}}

MainTitle == prefer_latin_title(get_cell(uploaded.df, FIXPOS.TITLE))
ShortTitle == get_cell(uploaded.df, SHORT_POS)

====
